---- MODULE Spec2Model ----
(***************************************************************************)
(* A model of the scpi-client text codec: the cursor primitives of         *)
(* src/src/lib.rs, the numeric codec of src/src/primitives.rs and the      *)
(* enumeration codec that scpi_enum! of src/src/enumerations.rs generates. *)
(*                                                                         *)
(* A text (a Rust &str) is the sequence of its UTF-8 bytes; a byte is a    *)
(* one-token string ("1", ",", "xC3").  Rust's str::len, str::split_at,    *)
(* slicing and Match::end count bytes, and split_at and slicing panic off  *)
(* a character boundary, so the byte view is the one the code computes on. *)
(***************************************************************************)
EXTENDS Integers, Sequences, FiniteSets, TLC

VARIABLES
    input,  \* the cursor: the text not yet consumed (the *input of every primitive)
    call,   \* the last operation applied: its name, arguments, the cursor before it
            \* and the value that cursor text was serialized from, if it was
    ret,    \* what that operation returned: Ok(value), Err(error) or a panic
    decl    \* the enum declared with scpi_enum! (name and literals), <<>> when none is

vars == <<input, call, ret, decl>>

---------------------------------------------------------------------------
(* Bounds of the model. *)

\* Longest cursor text, in characters, of the cursor-primitive specification.
MaxLen == 4
\* Longest literal, in characters, handed to match_literal.
MaxLitLen == 2
\* Largest count handed to read_exact.
MaxCount == 5

---------------------------------------------------------------------------
(* Texts as UTF-8 byte sequences. *)

\* The first byte of a two-byte character (binary 110xxxxx).
LeadBytes == {"xC3", "xD9"}
\* The second byte of a two-byte character (binary 10xxxxxx).
ContinuationBytes == {"xA9", "xA3"}

\* U+00E9, a two-byte character.
EAcute == <<"xC3", "xA9">>
\* U+0663 ARABIC-INDIC DIGIT THREE, a two-byte character of class Nd.
ArabicThree == <<"xD9", "xA3">>

Char(b) == <<b>>

RECURSIVE TextsOver(_, _)
\* Every text of at most n characters of the alphabet A (a set of characters).
TextsOver(A, n) ==
    IF n = 0 THEN {<<>>}
    ELSE LET shorter == TextsOver(A, n - 1)
         IN  shorter \cup {t \o c : t \in shorter, c \in A}

Take(s, n) == SubSeq(s, 1, n)
Drop(s, n) == SubSeq(s, n + 1, Len(s))

\* str::is_char_boundary: the start, the end, or a byte that starts a character.
is_char_boundary(s, i) ==
    \/ i = 0
    \/ i = Len(s)
    \/ (i > 0 /\ i < Len(s) /\ s[i + 1] \notin ContinuationBytes)

\* The character of s that starts at byte i < Len(s), a character boundary.
CharAt(s, i) ==
    IF s[i + 1] \in LeadBytes THEN SubSeq(s, i + 1, i + 2) ELSE <<s[i + 1]>>

\* str::starts_with / the test of str::strip_prefix.
starts_with(s, p) == Len(p) <= Len(s) /\ Take(s, Len(p)) = p

\* str::find(char): the byte index of the first occurrence of the character c,
\* -1 for None.
find_char(s, c) ==
    LET hits == {i \in 0..(Len(s) - Len(c)) : SubSeq(s, i + 1, i + Len(c)) = c}
    IN  IF hits = {} THEN -1
        ELSE CHOOSE i \in hits : \A j \in hits : i <= j

---------------------------------------------------------------------------
(* Results. *)

NoCall == [fn |-> "none"]
NoRet == [kind |-> "none"]
\* The cursor text is not the serialization of a value.
NoOrigin == [ty |-> "none"]
Unit == <<>>
Ok(v) == [kind |-> "Ok", val |-> v]
\* Error::ResponseDecoding(format!(...)): the message and what it was built from.
Err(msg, a, b) == [kind |-> "Err", val |-> [msg |-> msg, a |-> a, b |-> b]]
\* A plain value, of an operation that returns no Result.
Val(v) == [kind |-> "Val", val |-> v]
\* A panic: the thread unwinds, no value is returned.
Panic(why) == [kind |-> "panic", val |-> why]

---------------------------------------------------------------------------
(* The cursor primitives: each yields the returned value and the cursor    *)
(* afterwards.                                                             *)

match_literal_keeps_cursor(in, literal) ==
    IF starts_with(in, literal)
    THEN [ret |-> Ok(Unit), input |-> in]
    ELSE [ret |-> Err("Expected literal not matched", literal, in), input |-> in]

match_literal(in, literal) ==
    IF starts_with(in, literal)
    THEN [ret |-> Ok(Unit), input |-> Drop(in, Len(literal))]
    ELSE [ret |-> Err("Expected literal not matched", literal, in), input |-> in]

read_until(in, delimiter) ==
    LET index == find_char(in, delimiter)
    IN  IF index >= 0
        THEN LET head == Take(in, index)
                 tail == Drop(in, index)
             IN  \* &tail[1..] panics unless byte 1 of tail starts a character
                 IF is_char_boundary(tail, 1)
                 THEN [ret |-> Ok(head), input |-> Drop(tail, 1)]
                 ELSE [ret |-> Panic("byte index 1 is not a char boundary"),
                       input |-> in]
        ELSE [ret |-> Err("Expected delimiter in", delimiter, in), input |-> in]

read_exact(in, len) ==
    IF Len(in) < len
    THEN [ret |-> Err("Failed to read characters from", len, in), input |-> in]
    ELSE \* split_at panics unless len is on a character boundary
         IF is_char_boundary(in, len)
         THEN [ret |-> Ok(Take(in, len)), input |-> Drop(in, len)]
         ELSE [ret |-> Panic("byte index is not a char boundary"), input |-> in]

read_all(in) == [ret |-> Ok(in), input |-> <<>>]

check_empty(in) ==
    IF in = <<>>
    THEN Ok(Unit)
    ELSE Err("Response should be empty/fully deserialized", in, in)

---------------------------------------------------------------------------
(* Regular expressions, as the regex crate matches them: Unicode mode, so  *)
(* a class is a set of characters and \d is every decimal digit (Nd), not  *)
(* only 0-9; leftmost-first, so of the matches at the leftmost start the   *)
(* one a backtracking search finds first, greedy operators preferring more.*)

AsciiDigitBytes == {"0", "1", "2", "3", "4", "5", "6", "7", "8", "9"}
AsciiDigits == {Char(b) : b \in AsciiDigitBytes}
\* \d: the ASCII digits and the other characters of class Nd.
UnicodeDigits == AsciiDigits \cup {ArabicThree}

Start == [k |-> "start"]
Class(set) == [k |-> "class", set |-> set]
Cat(a, b) == [k |-> "cat", a |-> a, b |-> b]
Alt(a, b) == [k |-> "alt", a |-> a, b |-> b]
Opt(a) == [k |-> "opt", a |-> a]
Plus(a) == [k |-> "plus", a |-> a]

RECURSIVE MatchEnds(_, _, _)
RECURSIVE CatEnds(_, _, _)
RECURSIVE PlusEnds(_, _, _, _)
\* The ends of the matches of p in s that start at byte i, in the order a
\* backtracking search finds them (the first is the leftmost-first match).
MatchEnds(p, s, i) ==
    CASE p.k = "start" -> IF i = 0 THEN <<i>> ELSE <<>>
      [] p.k = "class" ->
            IF i < Len(s) /\ CharAt(s, i) \in p.set
            THEN <<i + Len(CharAt(s, i))>> ELSE <<>>
      [] p.k = "cat" -> CatEnds(MatchEnds(p.a, s, i), p.b, s)
      [] p.k = "alt" -> MatchEnds(p.a, s, i) \o MatchEnds(p.b, s, i)
      [] p.k = "opt" -> MatchEnds(p.a, s, i) \o <<i>>
      [] p.k = "plus" -> PlusEnds(MatchEnds(p.a, s, i), p, s, i)

\* p.b tried from each end of p.a in turn.
CatEnds(ends, q, s) ==
    IF ends = <<>> THEN <<>>
    ELSE MatchEnds(q, s, Head(ends)) \o CatEnds(Tail(ends), q, s)

\* Greedy repetition: after one more match of the body, more of them first.
PlusEnds(ends, p, s, i) ==
    IF ends = <<>> THEN <<>>
    ELSE (IF Head(ends) > i THEN MatchEnds(p, s, Head(ends)) ELSE <<>>)
         \o <<Head(ends)>> \o PlusEnds(Tail(ends), p, s, i)

NoMatch == [start |-> -1, end |-> -1]

\* Regex::find: the leftmost-first match, NoMatch for None.
regex_find(p, s) ==
    LET starts == {i \in 0..Len(s) :
                      is_char_boundary(s, i) /\ MatchEnds(p, s, i) # <<>>}
    IN  IF starts = {} THEN NoMatch
        ELSE LET first == CHOOSE i \in starts : \A j \in starts : i <= j
             IN  [start |-> first, end |-> Head(MatchEnds(p, s, first))]

\* .map_or(0, |m| m.end())
match_end_or_zero(p, s) ==
    LET m == regex_find(p, s) IN IF m = NoMatch THEN 0 ELSE m.end

read_prefix(in, pattern) ==
    LET length == match_end_or_zero(pattern, in)
    IN  IF is_char_boundary(in, length)
        THEN [ret |-> Val(Take(in, length)), input |-> Drop(in, length)]
        ELSE [ret |-> Panic("byte index is not a char boundary"), input |-> in]

\* The patterns handed to read_prefix: the one of tests::test_read_prefix, the
\* same without its anchor, and an anchored alternation.
PatternNames == {"^[0-9]+", "[0-9]+", "^(?:1|12)"}

Regex(name) ==
    CASE name = "^[0-9]+" -> Cat(Start, Plus(Class(AsciiDigits)))
      [] name = "[0-9]+" -> Plus(Class(AsciiDigits))
      [] name = "^(?:1|12)" ->
            Cat(Start, Alt(Class({Char("1")}),
                           Cat(Class({Char("1")}), Class({Char("2")}))))

---------------------------------------------------------------------------
(* The specification of the cursor primitives: a caller holds a cursor     *)
(* over a received text and applies the primitives to it, one after the    *)
(* other, until one panics.                                                *)

CursorAlphabet == {Char("1"), Char("2"), Char(","), EAcute}
CursorTexts == TextsOver(CursorAlphabet, MaxLen)
Literals == TextsOver(CursorAlphabet, MaxLitLen)

Running == ret.kind # "panic"

\* What every executed operation does to the state.
Applied(fn, arg, out) ==
    /\ Running
    /\ call' = [fn |-> fn, arg |-> arg, before |-> input,
                origin |-> IF call.fn = "serialize_to_string"
                           THEN call.arg ELSE NoOrigin]
    /\ ret' = out.ret
    /\ input' = out.input
    /\ UNCHANGED decl

InitCursor ==
    /\ input \in CursorTexts
    /\ call = NoCall
    /\ ret = NoRet
    /\ decl = <<>>

MatchLiteral ==
    \E literal \in Literals :
        Applied("match_literal", literal, match_literal(input, literal))

ReadUntil ==
    \E delimiter \in CursorAlphabet :
        Applied("read_until", delimiter, read_until(input, delimiter))

ReadExact ==
    \E len \in 0..MaxCount :
        Applied("read_exact", len, read_exact(input, len))

ReadPrefix ==
    \E name \in PatternNames :
        Applied("read_prefix", name, read_prefix(input, Regex(name)))

ReadAll == Applied("read_all", Unit, read_all(input))

CheckEmpty ==
    Applied("check_empty", Unit, [ret |-> check_empty(input), input |-> input])

NextCursor ==
    \/ MatchLiteral
    \/ ReadUntil
    \/ ReadExact
    \/ ReadPrefix
    \/ ReadAll
    \/ CheckEmpty

SpecCursor == InitCursor /\ [][NextCursor]_vars

---------------------------------------------------------------------------
(* The numeric codec.                                                      *)

\* Longest received text, in characters, of the numeric specification.
MaxNumLen == 3

\* The numeric types of for_numeric_primitives! whose values fit TLC's 32-bit
\* integers, and the two floating-point types.  u32, u64, u128, i64 and i128
\* differ from these in their bounds only.
IntTypeNames == {"u8", "u16", "i8", "i16", "i32"}
FloatTypeNames == {"f32", "f64"}
NumTypeNames == IntTypeNames \cup FloatTypeNames

\* T::MIN and T::MAX of an integer type; for a float type the decimal
\* exponents beyond which a parsed literal is infinite or zero.
NumType(name) ==
    CASE name = "u8" -> [signed |-> FALSE, min |-> 0, max |-> 255]
      [] name = "u16" -> [signed |-> FALSE, min |-> 0, max |-> 65535]
      [] name = "i8" -> [signed |-> TRUE, min |-> -128, max |-> 127]
      [] name = "i16" -> [signed |-> TRUE, min |-> -32768, max |-> 32767]
      [] name = "i32" -> [signed |-> TRUE, min |-> -2147483647 - 1,
                          max |-> 2147483647]
      [] name = "f32" -> [maxExp10 |-> 38, minExp10 |-> -45]
      [] name = "f64" -> [maxExp10 |-> 308, minExp10 |-> -323]

SignBytes == {"+", "-"}
SignClass == Class({Char("+"), Char("-")})
DigitClass == Class(UnicodeDigits)

\* ^\d+
REGEX_UNSIGNED_INT == Cat(Start, Plus(DigitClass))
\* ^[+-]?\d+
REGEX_SIGNED_INT == Cat(Start, Cat(Opt(SignClass), Plus(DigitClass)))
\* ^[+-]?(?:\d+)?(?:\.\d+)?(?:[eE][+-]?\d+)?
REGEX_FLOATING_POINT ==
    Cat(Start,
    Cat(Opt(SignClass),
    Cat(Opt(Plus(DigitClass)),
    Cat(Opt(Cat(Class({Char(".")}), Plus(DigitClass))),
        Opt(Cat(Class({Char("e"), Char("E")}),
            Cat(Opt(SignClass), Plus(DigitClass))))))))

\* The pattern impl_deserialize_with_parse_from_regex! gives each type.
RegexOf(ty) ==
    IF ty \in FloatTypeNames THEN REGEX_FLOATING_POINT
    ELSE IF NumType(ty).signed THEN REGEX_SIGNED_INT
    ELSE REGEX_UNSIGNED_INT

prefix_len(ty, in) == match_end_or_zero(RegexOf(ty), in)

DigitBytesInOrder == <<"0", "1", "2", "3", "4", "5", "6", "7", "8", "9">>
DigitByte(d) == DigitBytesInOrder[d + 1]
DigitValue(b) == CHOOSE d \in 0..9 : DigitBytesInOrder[d + 1] = b

---------------------------------------------------------------------------
(* Integers: Display (to_string) and FromStr (parse) of the standard       *)
(* library.                                                                *)

RECURSIVE NatDigits(_)
NatDigits(n) ==
    IF n < 10 THEN <<DigitByte(n)>>
    ELSE NatDigits(n \div 10) \o <<DigitByte(n % 10)>>

RECURSIVE NegDigits(_)
\* The digits of |v| for v < 0, computed without negating v (T::MIN has no
\* positive counterpart).
NegDigits(v) ==
    LET last == (10 - (v % 10)) % 10
        rest == (v + last) \div 10
    IN  IF rest = 0 THEN <<DigitByte(last)>>
        ELSE NegDigits(rest) \o <<DigitByte(last)>>

IntToString(v) == IF v < 0 THEN <<"-">> \o NegDigits(v) ELSE NatDigits(v)

ParseError(why) == [kind |-> "Err", val |-> why]

RECURSIVE AccumulateDigits(_, _, _, _)
\* The digit loop of from_str_radix: checked_mul by 10, then checked_add of
\* the digit (checked_sub for a negative number).
AccumulateDigits(t, digits, acc, positive) ==
    IF digits = <<>> THEN Ok(acc)
    ELSE IF Head(digits) \notin AsciiDigitBytes
    THEN ParseError("invalid digit found in string")
    ELSE LET d == DigitValue(Head(digits))
         IN  IF positive
             THEN IF acc > t.max \div 10 \/ acc * 10 > t.max - d
                  THEN ParseError("number too large to fit in target type")
                  ELSE AccumulateDigits(t, Tail(digits), acc * 10 + d, positive)
             ELSE IF acc < (t.min + 9) \div 10 \/ acc * 10 < t.min + d
                  THEN ParseError("number too small to fit in target type")
                  ELSE AccumulateDigits(t, Tail(digits), acc * 10 - d, positive)

ParseInt(ty, src) ==
    LET t == NumType(ty)
    IN  IF src = <<>>
        THEN ParseError("cannot parse integer from empty string")
        ELSE IF src[1] \in SignBytes /\ Len(src) = 1
        THEN ParseError("invalid digit found in string")
        ELSE IF src[1] = "+" THEN AccumulateDigits(t, Tail(src), 0, TRUE)
        ELSE IF src[1] = "-" /\ t.signed
        THEN AccumulateDigits(t, Tail(src), 0, FALSE)
        ELSE AccumulateDigits(t, src, 0, TRUE)


---------------------------------------------------------------------------
(* Floats: Display and FromStr of the standard library.  A finite float is *)
(* named by its shortest decimal that parses back to it, which is what     *)
(* Display prints: the digits without leading or trailing zeros and the    *)
(* power of ten of the last one.  Parsing yields the float named by the    *)
(* literal's decimal: rounding to the nearest float is left out, exact for *)
(* every text Display prints.                                              *)

NaN == [cls |-> "nan", neg |-> FALSE, digits |-> <<>>, exp |-> 0]
Infinity(neg) == [cls |-> "inf", neg |-> neg, digits |-> <<>>, exp |-> 0]
Zero(neg) == [cls |-> "fin", neg |-> neg, digits |-> <<>>, exp |-> 0]
Finite(neg, digits, exp) ==
    [cls |-> "fin", neg |-> neg, digits |-> digits, exp |-> exp]

RECURSIVE Zeros(_)
Zeros(n) == IF n <= 0 THEN <<>> ELSE <<"0">> \o Zeros(n - 1)

\* impl Display for f32/f64: no exponent is ever printed.
FloatToString(v) ==
    CASE v.cls = "nan" -> <<"N", "a", "N">>
      [] v.cls = "inf" -> (IF v.neg THEN <<"-">> ELSE <<>>) \o <<"i", "n", "f">>
      [] OTHER ->
            LET sign == IF v.neg THEN <<"-">> ELSE <<>>
                n == Len(v.digits)
                ds == [i \in 1..n |-> DigitByte(v.digits[i])]
            IN  IF n = 0 THEN sign \o <<"0">>
                ELSE IF v.exp >= 0 THEN sign \o ds \o Zeros(v.exp)
                ELSE IF n > -v.exp
                THEN sign \o Take(ds, n + v.exp) \o <<".">> \o Drop(ds, n + v.exp)
                ELSE sign \o <<"0", ".">> \o Zeros(-v.exp - n) \o ds

RECURSIVE DigitRun(_)
\* How many ASCII digits s starts with.
DigitRun(s) ==
    IF s = <<>> \/ Head(s) \notin AsciiDigitBytes THEN 0
    ELSE 1 + DigitRun(Tail(s))

RECURSIVE NatValue(_, _)
\* The number a run of ASCII digits denotes.
NatValue(ds, acc) ==
    IF ds = <<>> THEN acc ELSE NatValue(Tail(ds), acc * 10 + DigitValue(Head(ds)))

RECURSIVE StripLeadingZeros(_)
StripLeadingZeros(ds) ==
    IF ds # <<>> /\ Head(ds) = 0 THEN StripLeadingZeros(Tail(ds)) ELSE ds

RECURSIVE TrailingZeros(_)
TrailingZeros(ds) ==
    IF ds # <<>> /\ ds[Len(ds)] = 0
    THEN 1 + TrailingZeros(Take(ds, Len(ds) - 1)) ELSE 0

\* The float a decimal names: digits * 10^exp, infinite above the type's
\* range and zero below it.
Decimal(t, neg, ds, exp) ==
    LET lead == StripLeadingZeros(ds)
        z == TrailingZeros(lead)
        digits == Take(lead, Len(lead) - z)
        magnitude == Len(digits) + exp + z
    IN  IF digits = <<>> THEN Zero(neg)
        ELSE IF magnitude > t.maxExp10 + 1 THEN Infinity(neg)
        ELSE IF magnitude < t.minExp10 THEN Zero(neg)
        ELSE Finite(neg, digits, exp + z)

LowerByte(b) ==
    CASE b = "I" -> "i" [] b = "N" -> "n" [] b = "F" -> "f" [] b = "A" -> "a"
      [] b = "T" -> "t" [] b = "Y" -> "y" [] OTHER -> b
Lower(s) == [i \in 1..Len(s) |-> LowerByte(s[i])]

\* dec2flt: Sign? ( 'inf' | 'infinity' | 'nan' | Number ), with
\* Number ::= ( Digit+ | Digit+ '.' Digit* | Digit* '.' Digit+ ) Exp? and
\* Exp ::= [eE] Sign? Digit+, the whole text consumed.
ParseFloat(ty, src) ==
    IF src = <<>> THEN ParseError("cannot parse float from empty string")
    ELSE
    LET neg == src[1] = "-"
        body == IF src[1] \in SignBytes THEN Tail(src) ELSE src
        nInt == DigitRun(body)
        afterInt == Drop(body, nInt)
        hasDot == afterInt # <<>> /\ afterInt[1] = "."
        nFrac == IF hasDot THEN DigitRun(Tail(afterInt)) ELSE 0
        afterFrac == IF hasDot THEN Drop(afterInt, 1 + nFrac) ELSE afterInt
        hasExp == afterFrac # <<>> /\ afterFrac[1] \in {"e", "E"}
        expBody == IF hasExp THEN Tail(afterFrac) ELSE <<>>
        expNeg == expBody # <<>> /\ expBody[1] = "-"
        expDigits == IF expBody # <<>> /\ expBody[1] \in SignBytes
                     THEN Tail(expBody) ELSE expBody
        wellFormed ==
            /\ nInt + nFrac > 0
            /\ IF hasExp
               THEN expDigits # <<>> /\ DigitRun(expDigits) = Len(expDigits)
               ELSE afterFrac = <<>>
        digitBytes == Take(body, nInt)
                      \o (IF hasDot THEN SubSeq(afterInt, 2, 1 + nFrac) ELSE <<>>)
        digits == [i \in 1..Len(digitBytes) |-> DigitValue(digitBytes[i])]
        expValue == IF expNeg THEN -NatValue(expDigits, 0)
                    ELSE NatValue(expDigits, 0)
    IN  IF Lower(body) \in {<<"i", "n", "f">>,
                            <<"i", "n", "f", "i", "n", "i", "t", "y">>}
        THEN Ok(Infinity(neg))
        ELSE IF Lower(body) = <<"n", "a", "n">> THEN Ok(NaN)
        ELSE IF ~wellFormed THEN ParseError("invalid float literal")
        ELSE Ok(Decimal(NumType(ty), neg, digits, expValue - nFrac))

---------------------------------------------------------------------------
(* ScpiSerialize and ScpiDeserialize of the numeric types.                 *)

\* ToString::to_string of the value.
to_string(ty, v) ==
    IF ty \in FloatTypeNames THEN FloatToString(v) ELSE IntToString(v)

\* str::parse::<T>.
parse(ty, src) ==
    IF ty \in FloatTypeNames THEN ParseFloat(ty, src) ELSE ParseInt(ty, src)

\* ScpiSerialize::serialize: the text is appended to out.
serialize(ty, v, out) == out \o to_string(ty, v)

serialize_to_string(ty, v) == serialize(ty, v, <<>>)

\* deserialize, but a failed parse puts the cursor back.
deserialize_rewinds_on_parse_error(ty, in) ==
    LET len == prefix_len(ty, in)
        read == read_exact(in, len)
    IN  IF read.ret.kind # "Ok" THEN read
        ELSE LET parsed == parse(ty, read.ret.val)
             IN  IF parsed.kind = "Ok"
                 THEN [ret |-> parsed, input |-> read.input]
                 ELSE [ret |-> Err("Failed to parse", parsed.val, read.ret.val),
                       input |-> in]

\* ScpiDeserialize::deserialize of T: DeserializedWithParse.
deserialize(ty, in) ==
    LET len == prefix_len(ty, in)
        read == read_exact(in, len)
    IN  IF read.ret.kind # "Ok" THEN read
        ELSE LET parsed == parse(ty, read.ret.val)
             IN  IF parsed.kind = "Ok"
                 THEN [ret |-> parsed, input |-> read.input]
                 ELSE [ret |-> Err("Failed to parse", parsed.val, read.ret.val),
                       input |-> read.input]

\* deserialize_complete, but with check_empty(input)? in place of
\* check_empty(input).unwrap(): leftover text is returned as an error.
deserialize_complete_propagates(ty, in) ==
    LET done == deserialize(ty, in)
    IN  IF done.ret.kind # "Ok" THEN [ret |-> done.ret, input |-> in]
        ELSE IF check_empty(done.input).kind = "Err"
        THEN [ret |-> check_empty(done.input), input |-> in]
        ELSE [ret |-> Ok(done.ret.val), input |-> in]

\* ScpiDeserialize::deserialize_complete: the text is the caller's and is not
\* advanced; the cursor is the function's own.
deserialize_complete(ty, in) ==
    LET done == deserialize(ty, in)
    IN  IF done.ret.kind # "Ok" THEN [ret |-> done.ret, input |-> in]
        ELSE IF check_empty(done.input).kind = "Err"
        THEN [ret |-> Panic("called Result::unwrap on an Err value"),
              input |-> in]
        ELSE [ret |-> Ok(done.ret.val), input |-> in]

---------------------------------------------------------------------------
(* The specification of the numeric codec: a text is received, or a value  *)
(* is serialized into one, and values are deserialized from the cursor.    *)

NumAlphabet ==
    {Char("0"), Char("3"), Char("+"), Char("-"), Char("."), Char("e"),
     Char("x"), ArabicThree}
NumTexts == TextsOver(NumAlphabet, MaxNumLen)

\* Every value of the 8-bit types, the values around the bounds and around a
\* change of length of the wider ones.
IntValues(ty) ==
    LET t == NumType(ty)
    IN  IF t.max <= 255 THEN t.min..t.max
        ELSE {v \in {t.min, t.min + 1, -100, -99, -10, -9, -1, 0, 1, 9, 10, 99,
                     100, 1234, t.max - 1, t.max} : t.min <= v /\ v <= t.max}

\* 0, -0, 5, 100, 1.2345, 2e-8, -0.2 (the values of tests::serialize_primitives),
\* -1.5 and the values that are not finite.
FloatValues ==
    {Zero(FALSE), Zero(TRUE), Finite(FALSE, <<5>>, 0), Finite(FALSE, <<1>>, 2),
     Finite(FALSE, <<1, 2, 3, 4, 5>>, -4), Finite(FALSE, <<2>>, -8),
     Finite(TRUE, <<2>>, -1), Finite(TRUE, <<1, 5>>, -1),
     NaN, Infinity(FALSE), Infinity(TRUE)}

Values(ty) == IF ty \in FloatTypeNames THEN FloatValues ELSE IntValues(ty)

InitNumeric ==
    /\ input \in NumTexts
    /\ call = NoCall
    /\ ret = NoRet
    /\ decl = <<>>

\* serialize_to_string reads no cursor: it renders the value into a new String,
\* over which the cursor is then placed.  Its outcome is the same from every
\* state, so it is taken from the one where nothing was received yet.
SerializeToString ==
    /\ call = NoCall
    /\ input = <<>>
    /\ \E ty \in NumTypeNames : \E v \in Values(ty) :
          LET text == serialize_to_string(ty, v)
          IN  /\ call' = [fn |-> "serialize_to_string",
                          arg |-> [ty |-> ty, val |-> v],
                          before |-> <<>>, origin |-> NoOrigin]
              /\ ret' = Val(text)
              /\ input' = text
              /\ UNCHANGED decl

Deserialize ==
    \E ty \in NumTypeNames : Applied("deserialize", ty, deserialize(ty, input))

DeserializeComplete ==
    \E ty \in NumTypeNames :
        Applied("deserialize_complete", ty, deserialize_complete(ty, input))

NextNumeric ==
    \/ SerializeToString
    \/ Deserialize
    \/ DeserializeComplete

SpecNumeric == InitNumeric /\ [][NextNumeric]_vars

---------------------------------------------------------------------------
(* The enumeration codec that scpi_enum! generates for a declaration: the  *)
(* enum's name and its literals in declaration order.  A variant is the    *)
(* position of its literal.                                                *)

\* Most variants of a declared enum.
MaxVariants == 2
\* Longest literal and longest received text, in characters.
MaxEnumLen == 2

RECURSIVE try_literals(_, _, _)
\* The chain of `if let Ok(()) = match_literal(input, $literal)` from the
\* k-th variant on, and the final Err.
try_literals(d, in, k) ==
    IF k > Len(d.literals)
    THEN [ret |-> Err("Unexpected token for", d.name, in), input |-> in]
    ELSE LET matched == match_literal(in, d.literals[k])
         IN  IF matched.ret.kind = "Ok"
             THEN [ret |-> Ok(k), input |-> matched.input]
             ELSE try_literals(d, matched.input, k + 1)

RECURSIVE try_literals_backwards(_, _, _)
try_literals_backwards(d, in, k) ==
    IF k < 1
    THEN [ret |-> Err("Unexpected token for", d.name, in), input |-> in]
    ELSE LET matched == match_literal(in, d.literals[k])
         IN  IF matched.ret.kind = "Ok"
             THEN [ret |-> Ok(k), input |-> matched.input]
             ELSE try_literals_backwards(d, matched.input, k - 1)

\* enum_deserialize, but the variants are tried last to first.
enum_deserialize_last_first(d, in) ==
    try_literals_backwards(d, in, Len(d.literals))

\* ScpiDeserialize::deserialize of the declared enum.
enum_deserialize(d, in) == try_literals(d, in, 1)

\* enum_serialize, but every arm pushes the first variant's literal.
enum_serialize_first_arm(d, variant, out) == out \o d.literals[1]

\* ScpiSerialize::serialize of the declared enum: the arm of the variant
\* pushes its literal.
enum_serialize(d, variant, out) == out \o d.literals[variant]

enum_serialize_to_string(d, variant) == enum_serialize(d, variant, <<>>)

---------------------------------------------------------------------------
(* The specification of the enumeration codec: an enum is declared; a text *)
(* is received, or a variant is serialized into one, and variants are      *)
(* deserialized from the cursor.                                           *)

EnumAlphabet == {Char("A"), Char("B")}
EnumTexts == TextsOver(EnumAlphabet, MaxEnumLen)

RECURSIVE LiteralLists(_)
\* Every list of 1 to n literals.
LiteralLists(n) ==
    IF n = 0 THEN {}
    ELSE LiteralLists(n - 1) \cup [1..n -> EnumTexts]

Declarations ==
    {[name |-> "Color", literals |-> ls] : ls \in LiteralLists(MaxVariants)}

InitEnum ==
    /\ decl \in Declarations
    /\ input \in EnumTexts
    /\ call = NoCall
    /\ ret = NoRet

\* Like the numeric serialize_to_string, taken from the state where nothing
\* was received yet.
EnumSerializeToString ==
    /\ call = NoCall
    /\ input = <<>>
    /\ \E variant \in 1..Len(decl.literals) :
          LET text == enum_serialize_to_string(decl, variant)
          IN  /\ call' = [fn |-> "serialize_to_string",
                          arg |-> [ty |-> decl.name, val |-> variant],
                          before |-> <<>>, origin |-> NoOrigin]
              /\ ret' = Val(text)
              /\ input' = text
              /\ UNCHANGED decl

EnumDeserialize ==
    Applied("deserialize", decl.name, enum_deserialize(decl, input))

NextEnum ==
    \/ EnumSerializeToString
    \/ EnumDeserialize

SpecEnum == InitEnum /\ [][NextEnum]_vars

---------------------------------------------------------------------------
(* Claims about the cursor primitives, read off the last operation.        *)

\* I starts with L: some prefix of I is L.
HasPrefix(I, L) == \E k \in 0..Len(I) : SubSeq(I, 1, k) = L

\* The character c occurs in I.
Occurs(I, c) == \E k \in 0..Len(I) : HasPrefix(Drop(I, k), c)

\* C1: match_literal(I, L) returns Ok and leaves the cursor at I without its
\* leading L if and only if I starts with L; otherwise it returns a decoding
\* error and the cursor is still I.  So a second match of the same L on the
\* advanced cursor fails, cursor unmoved, unless the rest starts with L again.
C1_MatchLiteral ==
    call.fn = "match_literal" =>
        LET I == call.before
            L == call.arg
        IN  /\ ret.kind \in {"Ok", "Err"}
            /\ (ret.kind = "Ok") <=> HasPrefix(I, L)
            /\ ret.kind = "Ok" => I = L \o input
            /\ ret.kind = "Err" => input = I

\* A nonempty literal was matched and text remains after it.
C1_Witness ==
    /\ call.fn = "match_literal"
    /\ ret.kind = "Ok"
    /\ call.arg # <<>>
    /\ input # <<>>
    /\ ~HasPrefix(input, call.arg)

\* C2: if d occurs in I, first at index k, read_until(I, d) returns Ok(I[0..k])
\* and leaves the cursor right after that d; if d does not occur in I it
\* returns a decoding error and the cursor is still I.
C2_ReadUntil ==
    call.fn = "read_until" =>
        LET I == call.before
            d == call.arg
        IN  IF Occurs(I, d)
            THEN /\ ret.kind = "Ok"
                 /\ ~Occurs(ret.val, d)
                 /\ I = ret.val \o d \o input
            ELSE /\ ret.kind = "Err"
                 /\ input = I

\* C3: if n <= len(I), read_exact(I, n) returns Ok of the first n characters
\* and the cursor becomes I[n..]; if n > len(I) it returns a decoding error
\* and the cursor is unchanged, so a failed read_exact does not affect what a
\* later read returns.  Lengths are taken as the code takes them, in bytes.
C3_ReadExact ==
    call.fn = "read_exact" =>
        LET I == call.before
            n == call.arg
        IN  IF n <= Len(I)
            THEN /\ ret.kind = "Ok"
                 /\ Len(ret.val) = n
                 /\ I = ret.val \o input
            ELSE /\ ret.kind = "Err"
                 /\ input = I

\* The lengths of the prefixes of I that P matches in full, P held to the
\* start of I.
AnchoredMatchLengths(P, I) ==
    LET ends == MatchEnds(P, I, 0)
    IN  {ends[j] : j \in 1..Len(ends)}

\* The longest prefix of I that P matches, the empty text when it matches none.
LongestAnchoredPrefix(P, I) ==
    LET lens == AnchoredMatchLengths(P, I)
    IN  IF lens = {} THEN <<>>
        ELSE Take(I, CHOOSE n \in lens : \A m \in lens : m <= n)

\* C4: for every pattern P, anchored or not, read_prefix(I, P) never fails,
\* returns the longest prefix of I that matches P anchored at the start of I
\* (the empty text when there is none) and advances the cursor past exactly
\* that prefix.
C4_ReadPrefix ==
    call.fn = "read_prefix" =>
        LET I == call.before
            P == Regex(call.arg)
        IN  /\ ret.kind = "Val"
            /\ ret.val = LongestAnchoredPrefix(P, I)
            /\ I = ret.val \o input

---------------------------------------------------------------------------
(* Claims about the numeric codec.                                         *)

\* C5: for every numeric type T and every value v of T, deserializing the text
\* that serializing v produced consumes the text completely and yields v.
C5_NumericRoundTrip ==
    (call.fn = "deserialize" /\ call.origin.ty = call.arg) =>
        /\ ret.kind = "Ok"
        /\ ret.val = call.origin.val
        /\ input = <<>>

\* The text has a decimal digit in it.
HasDigit(p) ==
    \E i \in 0..(Len(p) - 1) :
        is_char_boundary(p, i) /\ CharAt(p, i) \in UnicodeDigits

\* C8: with p the prefix of I that T's pattern matches, numeric deserialize
\* leaves the cursor at I without p in every outcome; it returns Ok(parse(p))
\* when the parse of p succeeds and a decoding error otherwise: when p is out
\* of T's range, and when p is empty, where no default value is returned.
C8_NumericDeserialize ==
    (call.fn = "deserialize" /\ call.arg \in NumTypeNames) =>
        LET I == call.before
            ty == call.arg
            p == LongestAnchoredPrefix(RegexOf(ty), I)
        IN  /\ I = p \o input
            /\ ret.kind \in {"Ok", "Err"}
            /\ (ret.kind = "Ok") <=> (parse(ty, p).kind = "Ok")
            /\ ret.kind = "Ok" => ret.val = parse(ty, p).val
            /\ p = <<>> => ret.kind = "Err"
            /\ (ret.kind = "Ok" /\ ty \in IntTypeNames) =>
                    /\ NumType(ty).min <= ret.val
                    /\ ret.val <= NumType(ty).max
                    /\ HasDigit(p)

\* "300" was read as a u8: all of it is consumed and an error is returned.
C8_Witness ==
    /\ call.fn = "deserialize"
    /\ call.arg = "u8"
    /\ call.before = <<"3", "0", "0">>
    /\ ret.kind = "Err"
    /\ input = <<>>

\* C9: deserialize_complete returns Ok(v) exactly when deserialize succeeds
\* with v and leaves no text; an error of deserialize is returned as that Err;
\* when deserialize succeeds and text remains it panics: no Err, never Ok.
C9_DeserializeComplete ==
    call.fn = "deserialize_complete" =>
        LET inner == deserialize(call.arg, call.before)
        IN  /\ (ret.kind = "Ok") <=> (inner.ret.kind = "Ok" /\ inner.input = <<>>)
            /\ ret.kind = "Ok" => ret.val = inner.ret.val
            /\ inner.ret.kind = "Err" => ret = inner.ret
            /\ (inner.ret.kind = "Ok" /\ inner.input # <<>>) => ret.kind = "panic"

\* A value was parsed, text was left over, and the call panicked.
C9_Witness ==
    /\ call.fn = "deserialize_complete"
    /\ ret.kind = "panic"
    /\ prefix_len(call.arg, call.before) > 0
    /\ prefix_len(call.arg, call.before) < Len(call.before)

\* C10: for f32 and f64, a nonempty prefix matched by the floating-point
\* pattern has a digit in it (integer, fractional or exponent digits); a sign
\* followed by no digit and no '.'+digit is a zero-length match and nothing of
\* it is consumed.
C10_FloatPrefixHasDigit ==
    (call.fn = "deserialize" /\ call.arg \in FloatTypeNames) =>
        LET p == Take(call.before, Len(call.before) - Len(input))
        IN  p # <<>> => HasDigit(p)

---------------------------------------------------------------------------
(* Claims about the enumeration codec.                                     *)

\* The variants whose literal the text starts with.
MatchingVariants(I) ==
    {k \in 1..Len(decl.literals) : HasPrefix(I, decl.literals[k])}

\* Some literal declared before the k-th one is a prefix of it.
Shadowed(k) ==
    \E j \in 1..(k - 1) : HasPrefix(decl.literals[k], decl.literals[j])

\* C6: for every declared enum and every variant V of it, whatever the
\* literals are, deserializing the text that serializing V produced yields V
\* and consumes exactly that text.
C6_EnumRoundTrip ==
    (call.fn = "deserialize" /\ call.origin.ty = decl.name) =>
        /\ ret.kind = "Ok"
        /\ ret.val = call.origin.val
        /\ input = <<>>

\* C6, amended: the same, for every variant V whose literal has no literal
\* declared before it as a prefix.
C6_EnumRoundTripUnshadowed ==
    (call.fn = "deserialize" /\ call.origin.ty = decl.name
        /\ ~Shadowed(call.origin.val)) =>
        /\ ret.kind = "Ok"
        /\ ret.val = call.origin.val
        /\ input = <<>>

\* The second variant, whose literal starts like the first one's without
\* having it as a prefix, came back from its own text.
C6_Witness ==
    /\ call.fn = "deserialize"
    /\ call.origin.ty = decl.name
    /\ call.origin.val = 2
    /\ ~Shadowed(2)
    /\ Len(decl.literals[1]) = 2
    /\ decl.literals[1][1] = decl.literals[2][1]
    /\ ret.kind = "Ok"
    /\ ret.val = 2

\* C7: deserialize yields the variant of the first declared literal that is a
\* prefix of I and advances the cursor past exactly that literal; when no
\* declared literal is a prefix of I it returns a decoding error naming the
\* enum and the cursor is unchanged.
C7_EnumFirstMatch ==
    (call.fn = "deserialize" /\ call.arg = decl.name) =>
        LET I == call.before
            matching == MatchingVariants(I)
        IN  IF matching # {}
            THEN LET first == CHOOSE k \in matching : \A j \in matching : k <= j
                 IN  /\ ret.kind = "Ok"
                     /\ ret.val = first
                     /\ I = decl.literals[first] \o input
            ELSE /\ ret.kind = "Err"
                 /\ ret.val.a = decl.name
                 /\ input = I

\* Literal A is a proper prefix of literal B and declared first; the text B
\* decoded as A's variant, the rest of B left in the cursor.
C7_Witness ==
    /\ call.fn = "deserialize"
    /\ Len(decl.literals) = 2
    /\ decl.literals[1] # <<>>
    /\ decl.literals[1] # decl.literals[2]
    /\ HasPrefix(decl.literals[2], decl.literals[1])
    /\ call.before = decl.literals[2]
    /\ ret.kind = "Ok"
    /\ ret.val = 1
    /\ input # <<>>

====
